---- MODULE Spec2Model ----
(***************************************************************************)
(* A model of the wrk load tester: main (src/src/main.rs), the round loop  *)
(* start_benchmark/run (src/src/bench.rs), the worker task benchmark and   *)
(* its Connector (src/src/http.rs), and WorkerResult (src/src/results.rs). *)
(*                                                                         *)
(* One action per resumption of an await point.  The network, the resolver *)
(* and the clock are the environment: a connect attempt, a request and a   *)
(* connection-driver task finish with any outcome, and the round deadline  *)
(* fires at any moment after it was computed.                              *)
(***************************************************************************)
EXTENDS Integers, Sequences, FiniteSets, Bags, TLC

\* ------------------------------------------------------------------ bounds
Connections == 2      \* settings.connections
Rounds == 2           \* settings.rounds
MaxAttempts == 2      \* request attempts of one worker the target reacts to
MaxRetries == 1       \* failed connect() attempts of one worker's retry loop
MaxDuration == 1      \* a worker's elapsed times are drawn from 1..MaxDuration
MaxSample == 2        \* the sampled WorkerResults hold times in 1..MaxSample
MaxCount == 2         \* and error counts in 1..MaxCount
BodySize == 10        \* bytes the target sends per response

Workers == 1..Connections
Durations == 1..MaxDuration

\* The messages e.to_string() yields for a failed attempt (http.rs:89-93):
\* the closure, the connection task's error, and the request future's error
\* (from sending the request or from reading the body).
Messages == {"connection closed", "driver error", "request error"}

VARIABLES
    run_pc,           \* where main/start_benchmark/run stands
    round,            \* i + 1 of start_benchmark's loop
    deadline_fired,   \* the round's deadline (http.rs:36) has passed
    pc,               \* each worker task's await point
    request_times,    \* benchmark's local Vec, per worker
    error_map,        \* benchmark's local HashMap, per worker
    connection_task,  \* state of the worker's current connection-driver task
    future,           \* state of the worker's in-flight request future
    usage,            \* connector.usage: bytes received, per worker
    retries,          \* failed connect() attempts in try_connect_until so far
    history,          \* each request attempt's outcome, oldest first: "ok",
                      \* the failure's message, or "cut" by the deadline
    ret,              \* what the worker task returned
    handles,          \* the FuturesUnordered of run: workers not yet collected
    combiner,         \* run's accumulator
    spawned,          \* number of tokio::spawn(benchmark(..)) calls of the run
    reports,          \* the kind of report each finished round printed
    report,           \* what the run() in progress printed for its round
    stderr,           \* the errors printed on stderr
    exit_code,        \* the process's exit status, -1 while it runs
    operands,         \* the WorkerResults a combine law is applied to
    law,              \* the combine law applied
    lhs,              \* its left-hand side
    rhs               \* its right-hand side

workerVars == <<pc, request_times, error_map, connection_task, future, usage,
                retries, history, ret>>
runVars == <<run_pc, round, deadline_fired, handles, combiner, spawned,
             reports, report, stderr, exit_code>>
lawVars == <<operands, law, lhs, rhs>>
vars == <<workerVars, runVars, lawVars>>

\* ------------------------------------------------------- WorkerResult
EmptyMap == [m \in {} |-> 0]

\* WorkerResult::default()
Default ==
    [total_times |-> << >>, request_times |-> << >>,
     buffer_sizes |-> << >>, error_map |-> EmptyMap]

\* The loop of combine over other.error_map: add to an existing count, insert
\* a new message with its count.
MergeErrors(mine, theirs) ==
    [m \in DOMAIN mine \cup DOMAIN theirs |->
        IF m \in DOMAIN theirs
        THEN IF m \in DOMAIN mine THEN mine[m] + theirs[m] ELSE theirs[m]
        ELSE mine[m]]

\* A combine that forgets to extend total_times.
combineDropTimes(self, other) ==
    [total_times |-> self.total_times,
     request_times |-> self.request_times \o other.request_times,
     buffer_sizes |-> self.buffer_sizes \o other.buffer_sizes,
     error_map |-> MergeErrors(self.error_map, other.error_map)]

\* A combine whose error loop overwrites an existing count.
combineOverwrite(self, other) ==
    [total_times |-> self.total_times \o other.total_times,
     request_times |-> self.request_times \o other.request_times,
     buffer_sizes |-> self.buffer_sizes \o other.buffer_sizes,
     error_map |-> [m \in DOMAIN self.error_map \cup DOMAIN other.error_map |->
                      IF m \in DOMAIN other.error_map
                      THEN other.error_map[m]
                      ELSE self.error_map[m]]]

\* WorkerResult::combine
combine(self, other) ==
    [total_times |-> self.total_times \o other.total_times,
     request_times |-> self.request_times \o other.request_times,
     buffer_sizes |-> self.buffer_sizes \o other.buffer_sizes,
     error_map |-> MergeErrors(self.error_map, other.error_map)]

\* WorkerResult::total_requests
total_requests(r) == Len(r.request_times)

RECURSIVE SumOver(_, _)
SumOver(map, keys) ==
    IF keys = {} THEN 0
    ELSE LET k == CHOOSE x \in keys : TRUE
         IN map[k] + SumOver(map, keys \ {k})

\* WorkerResult::total_transfer
total_transfer(r) ==
    SumOver([i \in 1..Len(r.buffer_sizes) |-> r.buffer_sizes[i]],
            1..Len(r.buffer_sizes))

\* The sum of all counts of an error map.
SumCounts(map) == SumOver(map, DOMAIN map)

\* The multiset of a sequence's entries.
RECURSIVE BagOf(_)
BagOf(s) ==
    IF s = << >> THEN EmptyBag ELSE BagOf(Tail(s)) (+) SetToBag({Head(s)})

\* ------------------------------------------------------------ the worker
NoReturn == [tag |-> "none", value |-> Default]

\* Ok(WorkerResult::default()), the return of http.rs:63
OkDefault == [tag |-> "ok", value |-> Default]

\* Err(e) of the `result?` of http.rs:62
ErrConnect == [tag |-> "err", value |-> Default]

\* The error tally of http.rs:101-108 that always inserts a count of 1.
RecordErrorInsert(map, e) ==
    [m \in DOMAIN map \cup {e} |-> IF m = e THEN 1 ELSE map[m]]

\* http.rs:101-108: add 1 to the message's count, insert it with 1 if new.
RecordError(map, e) ==
    IF e \in DOMAIN map
    THEN [map EXCEPT ![e] = @ + 1]
    ELSE [m \in DOMAIN map \cup {e} |-> IF m = e THEN 1 ELSE map[m]]

\* A result built without its total-time entry.
ResultNoTotal(w, elapsed) ==
    [tag |-> "ok",
     value |-> [total_times |-> << >>,
                request_times |-> request_times[w],
                buffer_sizes |-> <<usage[w]>>,
                error_map |-> error_map[w]]]

\* http.rs:125-130: the value the worker returns after its loop.
Result(w, elapsed) ==
    [tag |-> "ok",
     value |-> [total_times |-> <<elapsed>>,
                request_times |-> request_times[w],
                buffer_sizes |-> <<usage[w]>>,
                error_map |-> error_map[w]]]

\* The byte counter of the Connector's Usage after n more bytes were read
\* from a stream it wraps.
AddReceived(count, n) == count + n

\* The target still reacts to the attempt in flight.
Reacts(w) == Len(history[w]) < MaxAttempts

\* http.rs:60-62 and 66-82: connect() succeeded in time; the first request
\* is built and in flight.
ConnectOk(w) ==
    /\ pc[w] = "connecting"
    /\ ~deadline_fired
    /\ pc' = [pc EXCEPT ![w] = "serving"]
    /\ connection_task' = [connection_task EXCEPT ![w] = "running"]
    /\ future' = [future EXCEPT ![w] = "pending"]
    /\ UNCHANGED <<request_times, error_map, usage, retries, history, ret>>
    /\ UNCHANGED <<runVars, lawVars>>

\* http.rs:62: connect() failed in time and `result?` returns the error.
ConnectErr(w) ==
    /\ pc[w] = "connecting"
    /\ ~deadline_fired
    /\ pc' = [pc EXCEPT ![w] = "returned"]
    /\ ret' = [ret EXCEPT ![w] = ErrConnect]
    /\ UNCHANGED <<request_times, error_map, connection_task, future, usage,
                   retries, history>>
    /\ UNCHANGED <<runVars, lawVars>>

\* http.rs:63: the deadline cut the initial connect() off.
ConnectElapsed(w) ==
    /\ pc[w] = "connecting"
    /\ deadline_fired
    /\ pc' = [pc EXCEPT ![w] = "returned"]
    /\ ret' = [ret EXCEPT ![w] = OkDefault]
    /\ UNCHANGED <<request_times, error_map, connection_task, future, usage,
                   retries, history>>
    /\ UNCHANGED <<runVars, lawVars>>

\* The environment: the response arrived and its body was read to its end.
\* The byte-counting stream has counted the body (http.rs:172).
ResponseArrives(w) ==
    /\ pc[w] = "serving"
    /\ ~deadline_fired
    /\ Reacts(w)
    /\ connection_task[w] = "running"
    /\ future[w] = "pending"
    /\ future' = [future EXCEPT ![w] = "ok"]
    /\ usage' = [usage EXCEPT ![w] = AddReceived(@, BodySize)]
    /\ UNCHANGED <<pc, request_times, error_map, connection_task, retries,
                   history, ret>>
    /\ UNCHANGED <<runVars, lawVars>>

\* The environment: sending the request or reading the body failed.
RequestErrors(w) ==
    /\ pc[w] = "serving"
    /\ ~deadline_fired
    /\ Reacts(w)
    /\ future[w] = "pending"
    /\ future' = [future EXCEPT ![w] = "request error"]
    /\ UNCHANGED <<pc, request_times, error_map, connection_task, usage,
                   retries, history, ret>>
    /\ UNCHANGED <<runVars, lawVars>>

\* The environment: the connection-driver task finished, with Ok(()) when
\* the connection closed or with hyper's error. The worker holds the task
\* from handshake until it is replaced at http.rs:113, the retry loop
\* included.
DriverFinishes(w) ==
    /\ pc[w] \in {"serving", "reconnecting", "sleeping"}
    /\ ~deadline_fired
    /\ Reacts(w)
    /\ connection_task[w] = "running"
    /\ \E how \in {"closed", "errored"} :
          connection_task' = [connection_task EXCEPT ![w] = how]
    /\ UNCHANGED <<pc, request_times, error_map, future, usage, retries,
                   history, ret>>
    /\ UNCHANGED <<runVars, lawVars>>

\* A loop that breaks on a failed attempt: the message is tallied and the
\* result is returned.
FailedTerminates(w, e) ==
    /\ error_map' = [error_map EXCEPT ![w] = RecordError(@, e)]
    /\ history' = [history EXCEPT ![w] = Append(@, e)]
    /\ pc' = [pc EXCEPT ![w] = "returned"]
    /\ future' = [future EXCEPT ![w] = "none"]
    /\ \E elapsed \in Durations : ret' = [ret EXCEPT ![w] = Result(w, elapsed)]
    /\ UNCHANGED <<request_times, connection_task, usage, retries>>
    /\ UNCHANGED <<runVars, lawVars>>

\* A loop that sends the next request on a failed attempt without waiting
\* for try_connect_until.
FailedKeepsRequest(w, e) ==
    /\ error_map' = [error_map EXCEPT ![w] = RecordError(@, e)]
    /\ history' = [history EXCEPT ![w] = Append(@, e)]
    /\ pc' = [pc EXCEPT ![w] = "reconnecting"]
    /\ future' = [future EXCEPT ![w] = "pending"]
    /\ UNCHANGED <<request_times, connection_task, usage, retries, ret>>
    /\ UNCHANGED <<runVars, lawVars>>

\* http.rs:99-110: the attempt failed; its message is tallied and
\* try_connect_until starts.
Failed(w, e) ==
    /\ error_map' = [error_map EXCEPT ![w] = RecordError(@, e)]
    /\ history' = [history EXCEPT ![w] = Append(@, e)]
    /\ pc' = [pc EXCEPT ![w] = "reconnecting"]
    /\ future' = [future EXCEPT ![w] = "none"]
    /\ UNCHANGED <<request_times, connection_task, usage, retries, ret>>
    /\ UNCHANGED <<runVars, lawVars>>

\* http.rs:85-92: the biased select! polls the connection task first; when
\* it has finished, the attempt fails whatever the request future holds.
RequestDriverClosed(w) ==
    /\ pc[w] = "serving"
    /\ connection_task[w] \in {"closed", "errored"}
    /\ Failed(w, IF connection_task[w] = "closed"
                 THEN "connection closed" ELSE "driver error")

\* http.rs:93, 99-100: the request future failed and the connection task is
\* still running.
RequestFailed(w) ==
    /\ pc[w] = "serving"
    /\ connection_task[w] = "running"
    /\ future[w] = "request error"
    /\ Failed(w, "request error")

\* A select! without `biased` that takes the drained response although the
\* connection task has finished.
RequestSucceededUnbiased(w) ==
    /\ pc[w] = "serving"
    /\ future[w] = "ok"
    /\ \E elapsed \in Durations :
          request_times' = [request_times EXCEPT ![w] = Append(@, elapsed)]
    /\ history' = [history EXCEPT ![w] = Append(@, "ok")]
    /\ future' = [future EXCEPT ![w] = "pending"]
    /\ UNCHANGED <<pc, error_map, connection_task, usage, retries, ret>>
    /\ UNCHANGED <<runVars, lawVars>>

\* http.rs:93, 99, 122 and 74-82: the response was drained and the
\* connection task is still running; the latency is pushed and the next
\* request is built and in flight.
RequestSucceeded(w) ==
    /\ pc[w] = "serving"
    /\ connection_task[w] = "running"
    /\ future[w] = "ok"
    /\ \E elapsed \in Durations :
          request_times' = [request_times EXCEPT ![w] = Append(@, elapsed)]
    /\ history' = [history EXCEPT ![w] = Append(@, "ok")]
    /\ future' = [future EXCEPT ![w] = "pending"]
    /\ UNCHANGED <<pc, error_map, connection_task, usage, retries, ret>>
    /\ UNCHANGED <<runVars, lawVars>>

\* A cut attempt that still reaches the push of http.rs:122.
RequestElapsedCounted(w) ==
    /\ pc[w] = "serving"
    /\ deadline_fired
    /\ connection_task[w] = "running"
    /\ future[w] = "pending"
    /\ history' = [history EXCEPT ![w] = Append(@, "cut")]
    /\ pc' = [pc EXCEPT ![w] = "returned"]
    /\ \E elapsed \in Durations :
          /\ request_times' = [request_times EXCEPT ![w] = Append(@, elapsed)]
          /\ ret' = [ret EXCEPT ![w] =
                       [tag |-> "ok",
                        value |-> [total_times |-> <<elapsed>>,
                                   request_times |-> request_times'[w],
                                   buffer_sizes |-> <<usage[w]>>,
                                   error_map |-> error_map[w]]]]
    /\ future' = [future EXCEPT ![w] = "none"]
    /\ UNCHANGED <<error_map, connection_task, usage, retries>>
    /\ UNCHANGED <<runVars, lawVars>>

\* http.rs:99, 118-120 and 125-130: timeout_at found the select! pending and
\* the deadline passed; the loop breaks and the result is returned.
RequestElapsed(w) ==
    /\ pc[w] = "serving"
    /\ deadline_fired
    /\ connection_task[w] = "running"
    /\ future[w] = "pending"
    /\ history' = [history EXCEPT ![w] = Append(@, "cut")]
    /\ pc' = [pc EXCEPT ![w] = "returned"]
    /\ \E elapsed \in Durations : ret' = [ret EXCEPT ![w] = Result(w, elapsed)]
    /\ future' = [future EXCEPT ![w] = "none"]
    /\ UNCHANGED <<request_times, error_map, connection_task, usage, retries>>
    /\ UNCHANGED <<runVars, lawVars>>

\* http.rs:157-158, 111-114, 122 and 74-82: a connect() of the retry loop
\* succeeded; the handle and the task are replaced, the loop body runs to
\* its end and the next request is built and in flight.
ReconnectOk(w) ==
    /\ pc[w] = "reconnecting"
    /\ ~deadline_fired
    /\ connection_task' = [connection_task EXCEPT ![w] = "running"]
    /\ \E elapsed \in Durations :
          request_times' = [request_times EXCEPT ![w] = Append(@, elapsed)]
    /\ future' = [future EXCEPT ![w] = "pending"]
    /\ pc' = [pc EXCEPT ![w] = "serving"]
    /\ UNCHANGED <<error_map, usage, retries, history, ret>>
    /\ UNCHANGED <<runVars, lawVars>>

\* A retry loop that hands the error of a failed connect() to its caller,
\* which returns it.
ReconnectErrReturned(w) ==
    /\ pc[w] = "reconnecting"
    /\ ~deadline_fired
    /\ retries[w] < MaxRetries
    /\ retries' = [retries EXCEPT ![w] = @ + 1]
    /\ pc' = [pc EXCEPT ![w] = "returned"]
    /\ ret' = [ret EXCEPT ![w] = ErrConnect]
    /\ UNCHANGED <<request_times, error_map, connection_task, future, usage,
                   history>>
    /\ UNCHANGED <<runVars, lawVars>>

\* http.rs:157-161: a connect() of the retry loop failed; the loop sleeps.
ReconnectErr(w) ==
    /\ pc[w] = "reconnecting"
    /\ ~deadline_fired
    /\ retries[w] < MaxRetries
    /\ retries' = [retries EXCEPT ![w] = @ + 1]
    /\ pc' = [pc EXCEPT ![w] = "sleeping"]
    /\ UNCHANGED <<request_times, error_map, connection_task, future, usage,
                   history, ret>>
    /\ UNCHANGED <<runVars, lawVars>>

\* http.rs:161 and 156-157: the 25ms sleep ended; connect() is tried again.
SleepDone(w) ==
    /\ pc[w] = "sleeping"
    /\ ~deadline_fired
    /\ pc' = [pc EXCEPT ![w] = "reconnecting"]
    /\ UNCHANGED <<request_times, error_map, connection_task, future, usage,
                   retries, history, ret>>
    /\ UNCHANGED <<runVars, lawVars>>

\* A retry loop whose timeout_at wraps connect() but not the sleep.
ReconnectElapsedInConnect(w) ==
    /\ pc[w] = "reconnecting"
    /\ deadline_fired
    /\ pc' = [pc EXCEPT ![w] = "returned"]
    /\ \E elapsed \in Durations : ret' = [ret EXCEPT ![w] = Result(w, elapsed)]
    /\ UNCHANGED <<request_times, error_map, connection_task, future, usage,
                   retries, history>>
    /\ UNCHANGED <<runVars, lawVars>>

\* http.rs:165, 115 and 125-130: the deadline cut the retry loop off, in a
\* connect() or in the sleep; the loop breaks and the result is returned.
ReconnectElapsed(w) ==
    /\ pc[w] \in {"reconnecting", "sleeping"}
    /\ deadline_fired
    /\ pc' = [pc EXCEPT ![w] = "returned"]
    /\ \E elapsed \in Durations : ret' = [ret EXCEPT ![w] = Result(w, elapsed)]
    /\ UNCHANGED <<request_times, error_map, connection_task, future, usage,
                   retries, history>>
    /\ UNCHANGED <<runVars, lawVars>>

\* ------------------------------------------------- main and the round loop
Idle(v) == [w \in Workers |-> v]

\* main.rs:13: parse() fails; main returns the error, which the runtime
\* prints before it exits with status 1.
ParseErr ==
    /\ run_pc = "parse"
    /\ stderr' = Append(stderr, "configuration error")
    /\ exit_code' = 1
    /\ run_pc' = "exited"
    /\ UNCHANGED <<round, deadline_fired, handles, combiner, spawned, reports,
                   report>>
    /\ UNCHANGED <<workerVars, lawVars>>

\* main.rs:13-14, bench.rs:29-39 and http.rs:36-37: the settings are parsed,
\* the runtime is built, and the first round computes its deadline and waits
\* for the template.
ParseOk ==
    /\ run_pc = "parse"
    /\ round' = 1
    /\ deadline_fired' = FALSE
    /\ run_pc' = "resolving"
    /\ UNCHANGED <<handles, combiner, spawned, reports, report, stderr,
                   exit_code>>
    /\ UNCHANGED <<workerVars, lawVars>>

\* The environment: the deadline of the round passes.
DeadlineFires ==
    /\ run_pc \in {"resolving", "collecting"}
    /\ ~deadline_fired
    /\ deadline_fired' = TRUE
    /\ UNCHANGED <<run_pc, round, handles, combiner, spawned, reports, report,
                   stderr, exit_code>>
    /\ UNCHANGED <<workerVars, lawVars>>

\* bench.rs:39-43 and main.rs:14-16: run returned an error; start_benchmark
\* prints it and returns, the runtime is dropped with the tasks still on it,
\* and main returns Ok(()).
Abort(message) ==
    /\ stderr' = Append(stderr, message)
    /\ exit_code' = 0
    /\ run_pc' = "exited"
    /\ pc' = [w \in Workers |->
                IF pc[w] \in {"idle", "returned"} THEN pc[w] ELSE "cancelled"]

\* A start_benchmark that prints the error and goes on with the next round.
ResolveErrContinue ==
    /\ run_pc = "resolving"
    /\ stderr' = Append(stderr, "template error")
    /\ run_pc' = "reported"
    /\ UNCHANGED <<round, deadline_fired, handles, combiner, spawned, reports,
                   report, exit_code>>
    /\ UNCHANGED <<workerVars, lawVars>>

\* http.rs:37 and bench.rs:52-61: UserRequest::new fails and `?` returns the
\* error out of start_tasks and out of run.
ResolveErr ==
    /\ run_pc = "resolving"
    /\ Abort("template error")
    /\ UNCHANGED <<round, deadline_fired, handles, combiner, spawned, reports,
                   report>>
    /\ UNCHANGED <<request_times, error_map, connection_task, future, usage,
                   retries, history, ret>>
    /\ UNCHANGED lawVars

\* http.rs:37-45 and bench.rs:63-70: the template resolved; one task per
\* connection is spawned, each starting its connect(), and run starts
\* collecting with an empty combiner.
ResolveOk ==
    /\ run_pc = "resolving"
    /\ pc' = Idle("connecting")
    /\ spawned' = spawned + Connections
    /\ handles' = Workers
    /\ combiner' = Default
    /\ run_pc' = "collecting"
    /\ UNCHANGED <<round, deadline_fired, reports, report, stderr, exit_code>>
    /\ UNCHANGED <<request_times, error_map, connection_task, future, usage,
                   retries, history, ret>>
    /\ UNCHANGED lawVars

\* bench.rs:72-73: handles.next() yields a finished task that returned Ok;
\* its result is folded into the combiner.
CollectOk(w) ==
    /\ run_pc = "collecting"
    /\ w \in handles
    /\ ret[w].tag = "ok"
    /\ combiner' = combine(combiner, ret[w].value)
    /\ handles' = handles \ {w}
    /\ UNCHANGED <<run_pc, round, deadline_fired, spawned, reports, report,
                   stderr, exit_code>>
    /\ UNCHANGED <<workerVars, lawVars>>

\* bench.rs:72-73: handles.next() yields a finished task that returned Err;
\* `?` returns the error out of run.
CollectErr(w) ==
    /\ run_pc = "collecting"
    /\ w \in handles
    /\ ret[w].tag = "err"
    /\ Abort("connect error")
    /\ handles' = {}
    /\ UNCHANGED <<round, deadline_fired, combiner, spawned, reports, report>>
    /\ UNCHANGED <<request_times, error_map, connection_task, future, usage,
                   retries, history, ret>>
    /\ UNCHANGED lawVars

\* bench.rs:76-79: no request completed; only the notice is printed.
NoRequestsReport ==
    [kind |-> "none", divisors |-> << >>, errors |-> EmptyMap]

\* bench.rs:76-87: what run prints for the round result r.  The statistics
\* divide by total_times.len() (results.rs:64-65) and by total_requests()
\* (results.rs:71-72, 96).
ReportOf(r) ==
    IF total_requests(r) = 0
    THEN NoRequestsReport
    ELSE [kind |-> "stats",
          divisors |-> <<Len(r.total_times), Len(r.request_times)>>,
          errors |-> r.error_map]

\* Nothing printed yet.
NoReport == [kind |-> "pending", divisors |-> << >>, errors |-> EmptyMap]

\* A run that prints the round after its first handles.next().
ReportEarly ==
    /\ run_pc = "collecting"
    /\ handles # Workers
    /\ report' = ReportOf(combiner)
    /\ reports' = Append(reports, ReportOf(combiner).kind)
    /\ combiner' = Default
    /\ pc' = Idle("idle")
    /\ request_times' = Idle(<< >>)
    /\ error_map' = Idle(EmptyMap)
    /\ connection_task' = Idle("none")
    /\ future' = Idle("none")
    /\ usage' = Idle(0)
    /\ retries' = Idle(0)
    /\ history' = Idle(<< >>)
    /\ ret' = Idle(NoReturn)
    /\ handles' = {}
    /\ run_pc' = "reported"
    /\ UNCHANGED <<round, deadline_fired, spawned, stderr, exit_code>>
    /\ UNCHANGED lawVars

\* bench.rs:72 and 76-88: every handle was collected; run prints the round
\* and returns Ok(()).  The tasks and the results they returned are gone.
Report ==
    /\ run_pc = "collecting"
    /\ handles = {}
    /\ report' = ReportOf(combiner)
    /\ reports' = Append(reports, ReportOf(combiner).kind)
    /\ combiner' = Default
    /\ pc' = Idle("idle")
    /\ request_times' = Idle(<< >>)
    /\ error_map' = Idle(EmptyMap)
    /\ connection_task' = Idle("none")
    /\ future' = Idle("none")
    /\ usage' = Idle(0)
    /\ retries' = Idle(0)
    /\ history' = Idle(<< >>)
    /\ ret' = Idle(NoReturn)
    /\ run_pc' = "reported"
    /\ UNCHANGED <<round, deadline_fired, handles, spawned, stderr, exit_code>>
    /\ UNCHANGED lawVars

\* bench.rs:44-46 and 36-39, http.rs:36-37: the loop goes on; the next round
\* computes its deadline and waits for its template.
NextRound ==
    /\ run_pc = "reported"
    /\ round < Rounds
    /\ round' = round + 1
    /\ deadline_fired' = FALSE
    /\ report' = NoReport
    /\ run_pc' = "resolving"
    /\ UNCHANGED <<handles, combiner, spawned, reports, stderr, exit_code>>
    /\ UNCHANGED <<workerVars, lawVars>>

\* bench.rs:36, 47 and main.rs:16: the last round is over; start_benchmark
\* returns and main returns Ok(()).
Finish ==
    /\ run_pc = "reported"
    /\ round = Rounds
    /\ exit_code' = 0
    /\ run_pc' = "exited"
    /\ UNCHANGED <<round, deadline_fired, handles, combiner, spawned, reports,
                   report, stderr>>
    /\ UNCHANGED <<workerVars, lawVars>>

\* --------------------------------------------------------- specification
NoLaw ==
    /\ operands = <<Default, Default, Default>>
    /\ law = "none"
    /\ lhs = Default
    /\ rhs = Default

InitRun ==
    /\ run_pc = "parse"
    /\ round = 0
    /\ deadline_fired = FALSE
    /\ pc = Idle("idle")
    /\ request_times = Idle(<< >>)
    /\ error_map = Idle(EmptyMap)
    /\ connection_task = Idle("none")
    /\ future = Idle("none")
    /\ usage = Idle(0)
    /\ retries = Idle(0)
    /\ history = Idle(<< >>)
    /\ ret = Idle(NoReturn)
    /\ handles = {}
    /\ combiner = Default
    /\ spawned = 0
    /\ reports = << >>
    /\ report = NoReport
    /\ stderr = << >>
    /\ exit_code = -1

Init == InitRun /\ NoLaw

Next ==
    \/ ParseErr
    \/ ParseOk
    \/ DeadlineFires
    \/ ResolveErr
    \/ ResolveOk
    \/ Report
    \/ NextRound
    \/ Finish
    \/ \E w \in Workers :
        \/ ConnectOk(w)
        \/ ConnectErr(w)
        \/ ConnectElapsed(w)
        \/ ResponseArrives(w)
        \/ RequestErrors(w)
        \/ DriverFinishes(w)
        \/ RequestDriverClosed(w)
        \/ RequestFailed(w)
        \/ RequestSucceeded(w)
        \/ RequestElapsed(w)
        \/ ReconnectOk(w)
        \/ ReconnectErr(w)
        \/ SleepDone(w)
        \/ ReconnectElapsed(w)
        \/ CollectOk(w)
        \/ CollectErr(w)

Spec == Init /\ [][Next]_vars

\* The steps a worker task takes by itself once it is polled: what timeout_at
\* and select! do with outcomes that are ready. connect() results, responses
\* and the end of a sleep are the environment's.
WorkerStep(w) ==
    \/ ConnectElapsed(w)
    \/ RequestDriverClosed(w)
    \/ RequestFailed(w)
    \/ RequestSucceeded(w)
    \/ RequestElapsed(w)
    \/ ReconnectElapsed(w)

\* The steps of run and start_benchmark that wait for no one but the tasks.
RunStep ==
    \/ \E w \in Workers : CollectOk(w) \/ CollectErr(w)
    \/ Report
    \/ NextRound
    \/ Finish

\* The runtime polls every task that was woken, and block_on polls run.
Fairness ==
    /\ \A w \in Workers : WF_vars(WorkerStep(w))
    /\ WF_vars(RunStep)

SpecLive == Spec /\ Fairness

\* ------------------------------------------- the laws of WorkerResult::combine
\* WorkerResults to apply combine to: none, one or more latencies, the
\* total-time and byte-count entries absent or present, and every error map
\* over two messages.
SampleTimes == {<< >>} \cup {<<x>> : x \in 1..MaxSample}
SampleMessages == {"connection closed", "request error"}
SampleMaps ==
    UNION {[keys -> 1..MaxCount] : keys \in SUBSET SampleMessages}
Samples ==
    {[total_times |-> IF whole THEN <<MaxSample>> ELSE << >>,
      request_times |-> times,
      buffer_sizes |-> IF whole THEN <<BodySize>> ELSE << >>,
      error_map |-> errors] :
        whole \in BOOLEAN, times \in SampleTimes, errors \in SampleMaps}

InitCombine ==
    /\ InitRun
    /\ operands \in Samples \X Samples \X Samples
    /\ law = "none"
    /\ lhs = Default
    /\ rhs = Default

\* combine applied to the first two operands in both orders.
Commute ==
    /\ law = "none"
    /\ law' = "commute"
    /\ lhs' = combine(operands[1], operands[2])
    /\ rhs' = combine(operands[2], operands[1])
    /\ UNCHANGED <<operands, workerVars, runVars>>

\* combine applied to the three operands in both groupings.
Associate ==
    /\ law = "none"
    /\ law' = "associate"
    /\ lhs' = combine(combine(operands[1], operands[2]), operands[3])
    /\ rhs' = combine(operands[1], combine(operands[2], operands[3]))
    /\ UNCHANGED <<operands, workerVars, runVars>>

\* combine applied to the empty result and the first operand, as run does
\* with its first handle (bench.rs:70-73), and the other way round.
Identity ==
    /\ law = "none"
    /\ law' = "identity"
    /\ lhs' = combine(Default, operands[1])
    /\ rhs' = combine(operands[1], Default)
    /\ UNCHANGED <<operands, workerVars, runVars>>

NextCombine == Commute \/ Associate \/ Identity

SpecCombine == InitCombine /\ [][NextCombine]_vars

\* ------------------------------------------------------------- properties
\* The attempts of w that ended as `what`.
Count(w, what) == Cardinality({i \in 1..Len(history[w]) : history[w][i] \in what})
Successes(w) == Count(w, {"ok"})
Failures(w) == Count(w, Messages)
Cut(w) == history[w] # << >> /\ history[w][Len(history[w])] = "cut"

\* The tally of the failures of w, message by message.
Tally(w) ==
    [m \in {history[w][i] : i \in 1..Len(history[w])} \cap Messages |->
        Count(w, {m})]

\* C1: in every state of a worker's run and in the result it returns, the
\* latency sequence has as many entries as requests completed successfully.
C1_LatenciesAreSuccesses ==
    \A w \in Workers :
        /\ Len(request_times[w]) = Successes(w)
        /\ ret[w].tag = "ok" => Len(ret[w].value.request_times) = Successes(w)

\* C2: the error map of a worker, while it runs and in its result, holds for
\* each message the number of attempts that failed with it, so its counts sum
\* to the number of failed attempts; failed connect() attempts of the retry
\* loop and reconnects add nothing.
C2_ErrorCountsAreFailures ==
    \A w \in Workers :
        /\ error_map[w] = Tally(w)
        /\ SumCounts(error_map[w]) = Failures(w)
        /\ (ret[w].tag = "ok" /\ history[w] # << >>) =>
              /\ ret[w].value.error_map = Tally(w)
              /\ SumCounts(ret[w].value.error_map) = Failures(w)

\* A worker returned its result after two failures with the same message, a
\* failed connect() in the retry loop and successful reconnects.
C2_Witness ==
    \E w \in Workers :
        /\ ret[w].tag = "ok"
        /\ retries[w] > 0
        /\ Failures(w) = 2
        /\ \E m \in Messages : m \in DOMAIN error_map[w] /\ error_map[w][m] = 2

\* C3: a worker that returned without ever having had a connection returned
\* the empty result.
C3_NeverConnectedReturnsEmpty ==
    \A w \in Workers :
        (pc[w] = "returned" /\ connection_task[w] = "none") => ret[w] = OkDefault

\* C4: a run that ended without a configuration or template error printed no
\* error and reported every round.
C4_WorkerErrorsStayInWorkers ==
    (/\ run_pc = "exited"
     /\ \A i \in 1..Len(stderr) :
           stderr[i] \notin {"configuration error", "template error"})
    => (stderr = << >> /\ Len(reports) = Rounds)

\* C5: a worker whose last attempt was cut by the deadline returns a result
\* that counts the attempt neither as a failure nor as a success: the error
\* counts sum to the failures before it, and when every earlier attempt
\* completed, N of them, the result holds N latencies and no error.
C5_CutAttemptNotCounted ==
    \A w \in Workers :
        Cut(w) =>
            /\ ret[w].tag = "ok"
            /\ SumCounts(ret[w].value.error_map) = Failures(w)
            /\ Failures(w) = 0 =>
                  /\ Len(ret[w].value.request_times) = Len(history[w]) - 1
                  /\ ret[w].value.error_map = EmptyMap

\* A worker completed one request and the deadline cut its second.
C5_Witness ==
    \E w \in Workers : history[w] = <<"ok", "cut">> /\ pc[w] = "returned"

\* The same entries, in any order.
SameEntries(s, t) == BagOf(s) = BagOf(t)

\* C6 as stated: combine(a, b) equals combine(b, a).
C6_CombineCommutes == law = "commute" => lhs = rhs

\* C6: combine(a, b) and combine(b, a) hold the same latencies, total times
\* and byte counts, in a different order, and the same error map.
C6_CombineCommutesUpToOrder ==
    law = "commute" =>
        /\ SameEntries(lhs.request_times, rhs.request_times)
        /\ SameEntries(lhs.total_times, rhs.total_times)
        /\ SameEntries(lhs.buffer_sizes, rhs.buffer_sizes)
        /\ lhs.error_map = rhs.error_map

\* combine was applied both ways to results with different latencies and
\* with different counts of one message.
C6_Witness ==
    /\ law = "commute"
    /\ lhs.request_times # rhs.request_times
    /\ \E m \in DOMAIN operands[1].error_map \cap DOMAIN operands[2].error_map :
          /\ operands[1].error_map[m] # operands[2].error_map[m]
          /\ lhs.error_map[m] = operands[1].error_map[m] + operands[2].error_map[m]

\* C7: combine is associative, and combining with the empty result on either
\* side gives the other result back.
C7_CombineAssociatesWithIdentity ==
    /\ law = "associate" => lhs = rhs
    /\ law = "identity" => (lhs = operands[1] /\ rhs = operands[1])

\* combine was applied in both groupings to three results that each hold a
\* latency, a total time and a count of one common message.
C7_Witness ==
    /\ law = "associate"
    /\ \A i \in 1..3 :
          /\ operands[i].request_times # << >>
          /\ operands[i].total_times # << >>
          /\ "connection closed" \in DOMAIN operands[i].error_map
    /\ Len(lhs.request_times) = 3

\* C8: statistics are computed only for a round with at least one latency
\* entry, and then total_times.len() and total_requests(), the divisors, are
\* not zero; a combiner with a latency entry has a total-time entry.
C8_NoDivisionByZero ==
    /\ report.kind = "stats" => (report.divisors[1] > 0 /\ report.divisors[2] > 0)
    /\ total_requests(combiner) > 0 => Len(combiner.total_times) > 0
    /\ (run_pc = "reported" /\ report.kind = "none") => report.divisors = << >>

\* A round printed its statistics although one of its workers returned the
\* empty result.
C8_Witness ==
    /\ report.kind = "stats"
    /\ report.divisors[1] < Connections

\* C9 as stated: when template resolution failed, no worker was ever spawned
\* and no round was reported.
C9_TemplateErrorBeforeAnyRound ==
    (\E i \in 1..Len(stderr) : stderr[i] = "template error")
    => (spawned = 0 /\ reports = << >>)

\* C9: when template resolution failed in a round, the run has ended, every
\* earlier round spawned its workers and printed its report, and the round
\* itself and the later ones spawned no worker and printed nothing; so a
\* failure in the first round leaves no worker spawned and nothing reported.
C9_TemplateErrorBeforeItsRound ==
    (\E i \in 1..Len(stderr) : stderr[i] = "template error")
    => /\ run_pc = "exited"
       /\ spawned = (round - 1) * Connections
       /\ Len(reports) = round - 1
       /\ report = NoReport
       /\ \A w \in Workers : pc[w] = "idle"

\* Template resolution failed in the second round.
C9_Witness ==
    /\ \E i \in 1..Len(stderr) : stderr[i] = "template error"
    /\ round = 2
    /\ Len(reports) = 1

\* C10: a run that printed a configuration or template error ended with a
\* non-zero exit status.
C10_FatalErrorExitsNonZero ==
    (/\ run_pc = "exited"
     /\ \E i \in 1..Len(stderr) :
           stderr[i] \in {"configuration error", "template error"})
    => exit_code > 0

\* C11: a run that ended in a round without any completed request, and not
\* by a configuration or template error, has executed and reported all its
\* rounds.
C11_ZeroSuccessRoundContinues ==
    (/\ run_pc = "exited"
     /\ \A w \in Workers : Successes(w) = 0
     /\ \A i \in 1..Len(stderr) :
           stderr[i] \notin {"configuration error", "template error"})
    => Len(reports) = Rounds

\* C12: a round is reported only when each of its worker tasks has returned
\* and was collected, and while a round's template is being resolved, and
\* between the rounds, no worker task exists.
C12_RoundsAreSequential ==
    /\ [][(run_pc = "collecting" /\ run_pc' = "reported") =>
            \A w \in Workers : pc[w] = "returned" /\ w \notin handles]_vars
    /\ [][run_pc' = "resolving" =>
            \A w \in Workers : pc[w] = "idle" /\ pc'[w] = "idle"]_vars
    /\ [](run_pc \in {"reported", "resolving"} =>
            \A w \in Workers : pc[w] = "idle")

\* The second round resolves its template after the first was reported.
C12_Witness ==
    /\ run_pc = "resolving"
    /\ round = 2
    /\ Len(reports) = 1
    /\ \A w \in Workers : pc[w] = "idle"

DriverMessage(w) ==
    IF connection_task[w] = "closed" THEN "connection closed" ELSE "driver error"

\* The attempt of w in flight has just been recorded as a failure.
FailureRecorded(w) ==
    /\ Len(history'[w]) = Len(history[w]) + 1
    /\ history'[w][Len(history'[w])] \in Messages

\* C14: a worker that connected returns only after the deadline has fired;
\* a failed attempt does not make it return but starts the retry loop; and
\* when the retry loop connects, the worker serves again, on a new
\* connection task and with a further request in flight.
C14_OnlyDeadlineTerminates ==
    /\ [](\A w \in Workers :
            (pc[w] = "returned" /\ connection_task[w] # "none")
               => deadline_fired /\ ret[w].tag = "ok")
    /\ [][\A w \in Workers :
            FailureRecorded(w) =>
               pc'[w] = "reconnecting" /\ ret'[w] = ret[w]]_vars
    /\ [][\A w \in Workers :
            (pc[w] = "reconnecting" /\ pc'[w] = "serving") =>
               /\ connection_task'[w] = "running"
               /\ future'[w] = "pending"
               /\ ~deadline_fired]_vars

\* A worker serves again after a failed attempt, and later returns at the
\* deadline.
C14_Witness ==
    \E w \in Workers :
       /\ pc[w] = "returned"
       /\ Len(history[w]) = 3
       /\ history[w][1] \in Messages
       /\ history[w][2] = "ok"
       /\ history[w][3] = "cut"

\* C15: the retry loop ends in two ways only, with a connection before the
\* deadline or with the deadline's expiry; a connect() that fails in it
\* changes nothing the caller sees and is followed by the sleep and by
\* another attempt.
C15_RetryLoopOutcomes ==
    [][\A w \in Workers :
          (pc[w] \in {"reconnecting", "sleeping"} /\ pc'[w] # pc[w]) =>
             \/ /\ pc[w] = "reconnecting"
                /\ pc'[w] = "serving"
                /\ connection_task'[w] = "running"
                /\ ~deadline_fired
             \/ /\ pc'[w] = "returned"
                /\ deadline_fired
                /\ ret'[w] = [tag |-> "ok", value |-> ret'[w].value]
             \/ /\ pc[w] = "reconnecting"
                /\ pc'[w] = "sleeping"
                /\ ~deadline_fired
                /\ error_map'[w] = error_map[w]
                /\ history'[w] = history[w]
                /\ ret'[w] = ret[w]
             \/ /\ pc[w] = "sleeping"
                /\ pc'[w] = "reconnecting"
                /\ ~deadline_fired
             \/ pc'[w] = "cancelled"]_vars

\* The retry loop connected at its second attempt, after one failed
\* connect() and the sleep.
C15_Witness ==
    \E w \in Workers :
       /\ pc[w] = "serving"
       /\ retries[w] > 0
       /\ Failures(w) = 1
       /\ SumCounts(error_map[w]) = 1

\* C16: when the connection task has finished and the response is drained,
\* the attempt is recorded as a failure with the task's message, no latency
\* is pushed for it, and the worker starts the retry loop.
C16_DriverCompletionWins ==
    [][\A w \in Workers :
          (/\ pc[w] = "serving"
           /\ connection_task[w] \in {"closed", "errored"}
           /\ future[w] = "ok"
           /\ <<pc'[w], history'[w]>> # <<pc[w], history[w]>>
           /\ pc'[w] # "cancelled") =>
             /\ pc'[w] = "reconnecting"
             /\ history'[w] = Append(history[w], DriverMessage(w))
             /\ error_map'[w] = RecordError(error_map[w], DriverMessage(w))
             /\ request_times'[w] = request_times[w]]_vars

\* The response of the first attempt was drained, the connection closed, and
\* the attempt was recorded as "connection closed".
C16_Witness ==
    \E w \in Workers :
       /\ pc[w] = "reconnecting"
       /\ history[w] = <<"connection closed">>
       /\ usage[w] = BodySize
       /\ request_times[w] = << >>

\* C17: a worker has a request in flight only while it serves, and it sends
\* a request only after the one before was recorded as a success, or on a
\* connection that has just been established.
C17_OneRequestAtATime ==
    /\ [](\A w \in Workers :
            pc[w] \in {"idle", "connecting", "reconnecting", "sleeping",
                       "returned"} => future[w] = "none")
    /\ [][\A w \in Workers :
            (future'[w] = "pending" /\ future[w] # "pending") =>
               \/ /\ future[w] = "ok"
                  /\ history'[w] = Append(history[w], "ok")
               \/ /\ future[w] = "none"
                  /\ pc[w] \in {"connecting", "reconnecting"}
                  /\ pc'[w] = "serving"
                  /\ connection_task'[w] = "running"]_vars
    /\ [][\A w \in Workers :
            FailureRecorded(w) => future'[w] = "none"]_vars

\* The third request is in flight: the first failed, the retry loop
\* connected, and the second succeeded.
C17_Witness ==
    \E w \in Workers :
       /\ pc[w] = "serving"
       /\ future[w] = "pending"
       /\ Len(history[w]) = 2
       /\ history[w][1] \in Messages
       /\ history[w][2] = "ok"

\* The workers of the round whose handle was taken out of the collection.
Folded == Workers \ handles

\* The rounds that have spawned their workers.
RoundsStarted == IF run_pc = "resolving" THEN round - 1 ELSE round

\* The combiner holds what the folded workers returned, each once.
FoldedOnce ==
    /\ total_requests(combiner) =
          SumOver([w \in Workers |-> total_requests(ret[w].value)], Folded)
    /\ Len(combiner.total_times) =
          SumOver([w \in Workers |-> Len(ret[w].value.total_times)], Folded)
    /\ total_transfer(combiner) =
          SumOver([w \in Workers |-> total_transfer(ret[w].value)], Folded)
    /\ SumCounts(combiner.error_map) =
          SumOver([w \in Workers |-> SumCounts(ret[w].value.error_map)], Folded)

\* C18: every round spawns Connections workers; while the results are
\* collected the round result holds each collected result once; every worker
\* returns a result; and the run ends only between rounds, when every result
\* of the last round was folded and reported.
C18_EveryResultFoldedOnce ==
    /\ run_pc \in {"resolving", "collecting", "reported"} =>
          spawned = Connections * RoundsStarted
    /\ run_pc = "collecting" => FoldedOnce
    /\ \A w \in Workers : pc[w] # "cancelled"
    /\ run_pc = "exited" => \A w \in Workers : pc[w] = "idle"

\* What holds of the fold in every round, aborted or not.
FoldedOnceWhileCollecting ==
    /\ run_pc \in {"resolving", "collecting", "reported"} =>
          spawned = Connections * RoundsStarted
    /\ run_pc = "collecting" => FoldedOnce

\* C19: a worker's retry loop establishes a connection only when the
\* connection task the worker held before is no longer live, so that no
\* worker has two open connections.
C19_OneConnectionPerWorker ==
    [][\A w \in Workers :
          (pc[w] = "reconnecting" /\ pc'[w] = "serving") =>
             connection_task[w] # "running"]_vars

\* C20: in a round where bytes were counted for successful requests only,
\* the collected round result has total_transfer = BodySize * total_requests.
C20_TransferIsBodyTimesRequests ==
    (/\ run_pc = "collecting"
     /\ handles = {}
     /\ \A w \in Workers : usage[w] = BodySize * Successes(w))
    => total_transfer(combiner) = BodySize * total_requests(combiner)

\* C21: the report of a round holds the merged error map of the round, each
\* message with its summed count, also when no request of the round
\* completed.
C21_EveryRoundReportsItsErrors ==
    [][(run_pc = "collecting" /\ run_pc' = "reported") =>
          report'.errors = combiner.error_map]_vars

====
